---- MODULE Spec2Model ----
(***************************************************************************)
(* Match control of the chess application: the zustand game store, the     *)
(* ChessGame component (human moves, the built-in computer player with its *)
(* setTimeout chain, undo, forfeit, new game) and the ChessTimer interval. *)
(*                                                                         *)
(* Time is counted in units of 100 ms.  Every handler and every timer      *)
(* callback is one atomic step followed by React's re-render and effects.  *)
(* A callback created in a render keeps the store snapshot (`gameStore`)   *)
(* of that render: timers carry that snapshot in their `snap` field.       *)
(* The rules engine (chess.js) is an oracle: a position is the list of     *)
(* committed moves and its terminal status, chosen by the oracle.          *)
(***************************************************************************)
EXTENDS Integers, Sequences, FiniteSets, TLC

VARIABLES
  store,           \* the zustand store (useGameStore)
  inst,            \* number of the mounted ChessGame instance (0: none yet)
  games,           \* gameRef.current of every ChessGame instance
  isAiThinking,    \* useState of the mounted instance
  isAiMakingMove,  \* useState of the mounted instance
  promotionData,   \* useState of the mounted instance
  timers,          \* pending setTimeout callbacks, in creation order
  tickLeft,        \* time until the ChessTimer interval fires (-1: no interval)
  intents,         \* number of user intents so far
  lastAi,          \* the last computer move committed (history variable)
  stockfish        \* the useStockfish hook and its engine worker

vars == <<store, inst, games, isAiThinking, isAiMakingMove, promotionData,
          timers, tickLeft, intents, lastAi, stockfish>>

----------------------------------------------------------------------------
(* Bounds of the model *)

MaxPlies == 2      \* human moves are accepted while the history is shorter
MaxInst == 2       \* number of times a match is started from the setup screen
MaxIntents == 4    \* number of user intents (start, move, undo, forfeit, new game)
ClockSecs == 3     \* timeControl.minutes * 60 of the time controls offered
MaxIncrement == 1  \* largest timeControl.increment offered
Strengths == {7}   \* aiStrength levels offered
Jitter == {0, 9}   \* Math.random() * 1000, in units of 100 ms
Modes == {"computer", "human"}
Outcomes == {"ongoing", "checkmate", "stalemate", "insufficient material"}

(* Program constants, in units of 100 ms *)
TickInterval == 10      \* setInterval(..., 1000)
AiDelayWhite == 5       \* aiDelay when playerSide = white
AiDelayBlack == 8       \* aiDelay when playerSide = black
FirstMoveDelay == 5     \* setTimeout(() => makeAiMove(), 500) of the effect
PlayAgainDelay == 10    \* setTimeout(() => makeAiMove(), 1000)
FinallyDelay == 5       \* setTimeout(..., 500) of the finally block
BaseTime == 10          \* baseTime = 1000
LevelStep == 2          \* (11 - aiStrength) * 200
LevelTop == 11
InitialSecs == 600      \* initialState.whiteTime / blackTime
InitialStrength == 5    \* initialState.aiStrength

----------------------------------------------------------------------------
(* Values *)

Other(c) == IF c = "white" THEN "black" ELSE "white"

Max(a, b) == IF a >= b THEN a ELSE b

NullResult == [winner |-> "null", reason |-> "null"]

NoPromotion == [color |-> "null", fresh |-> FALSE]

NoAiMove == [n |-> 0, live |-> FALSE, think |-> 0, base |-> 0, charged |-> 0]

(* useStockfish before the engine has answered: no search, nothing in flight *)
NoWorker ==
  [ready |-> FALSE, analyzing |-> FALSE, search |-> "idle", outbox |-> <<>>,
   stopFind |-> 0, stopAnalysis |-> 0, calls |-> 0, requests |-> 0,
   callbacks |-> 0, leaked |-> FALSE]

(* new Chess() *)
NewChess == [hist |-> <<>>, status |-> "ongoing"]

(* game.turn() as a colour name *)
turn(g) == IF Len(g.hist) % 2 = 0 THEN "white" ELSE "black"

isGameOver(g) == g.status # "ongoing"

(* game.moves().length > 0: only checkmate and stalemate leave no move *)
hasMoves(g) == g.status \notin {"checkmate", "stalemate"}

(* game.move(...) of a legal move, the oracle giving the status st of the   *)
(* position after it; the entry records who the controller took the mover  *)
(* to be (`who`, and the colour `side` it then charges and credits).        *)
move(g, who, side, st) ==
  [hist |-> Append(g.hist, [by |-> who, side |-> side, from |-> g.status]),
   status |-> st]

(* game.undo() *)
undo(g) ==
  [hist |-> SubSeq(g.hist, 1, Len(g.hist) - 1),
   status |-> g.hist[Len(g.hist)].from]

----------------------------------------------------------------------------
(* The store: src/unnamed/part_001 *)

initialState ==
  [mode |-> "computer", playerSide |-> "white",
   timeControl |-> [secs |-> InitialSecs, increment |-> 0],
   aiStrength |-> InitialStrength,
   gameStarted |-> FALSE, gameResult |-> NullResult,
   whiteTime |-> InitialSecs, blackTime |-> InitialSecs,
   activeColor |-> "white", isThinking |-> FALSE]

timeOf(s, c) == IF c = "white" THEN s.whiteTime ELSE s.blackTime

setTime(s, c, t) ==
  IF c = "white" THEN [s EXCEPT !.whiteTime = t] ELSE [s EXCEPT !.blackTime = t]

setTimeControl(s, tc) ==
  [s EXCEPT !.timeControl = tc, !.whiteTime = tc.secs, !.blackTime = tc.secs]

startGame(s) == [s EXCEPT !.gameStarted = TRUE, !.gameResult = NullResult]

(* endGame that also leaves the match, as resetGame does *)
endGame_LeavesMatch(s, r) == [s EXCEPT !.gameResult = r, !.gameStarted = FALSE]

endGame(s, r) == [s EXCEPT !.gameResult = r]

resetGame(s) == initialState

(* Times are whole seconds here, so Math.round(time * 10) / 10 keeps them *)
updateTime(s, c, t) ==
  LET newTime == Max(0, t) IN
  IF newTime = 0 /\ s.gameStarted /\ s.gameResult = NullResult
  THEN [setTime(s, c, 0) EXCEPT
          !.gameResult = [winner |-> Other(c), reason |-> "time forfeit"]]
  ELSE setTime(s, c, newTime)

setActiveColor(s, c) == [s EXCEPT !.activeColor = c]

setThinking(s, b) == [s EXCEPT !.isThinking = b]

isGameActive(s) == s.gameStarted /\ s.gameResult = NullResult

----------------------------------------------------------------------------
(* The ChessGame component: src/unnamed/part_005 *)

Timer(k, d, s, i, o) ==
  [kind |-> k, left |-> d, snap |-> s, inst |-> i, over |-> o,
   think |-> 0, base |-> 0, issuedLive |-> FALSE, stale |-> FALSE]

(* History only: an undo or a new match marks the requests that are pending *)
Invalidate(q) ==
  [i \in 1..Len(q) |->
     IF q[i].kind = "aiBody" THEN [q[i] EXCEPT !.stale = TRUE] ELSE q[i]]

(* The position changed under an open promotion dialog *)
Stale(p) == IF p = NoPromotion THEN p ELSE [p EXCEPT !.fresh = FALSE]

RemoveAt(q, i) == SubSeq(q, 1, i - 1) \o SubSeq(q, i + 1, Len(q))

(* checkGameEnd that names the side to move, which is mated, as the winner *)
checkGameEnd_MatedSideWins(s, g) ==
  IF isGameOver(g)
  THEN endGame(s, [winner |-> IF g.status = "checkmate" THEN turn(g)
                              ELSE "none",
                   reason |-> g.status])
  ELSE s

(* checkGameEnd(currentGame) *)
checkGameEnd(s, g) ==
  IF isGameOver(g)
  THEN endGame(s, [winner |-> IF g.status = "checkmate" THEN Other(turn(g))
                              ELSE "none",
                   reason |-> g.status])
  ELSE s

(* addTimeIncrementFor(mover): the times are read from the render's snapshot *)
addTimeIncrementFor(s, snap, mover) ==
  IF snap.timeControl.increment > 0
  THEN updateTime(s, mover, timeOf(snap, mover) + snap.timeControl.increment)
  ELSE s

(* thinkTime = baseTime + levelMultiplier + Math.random() * 1000 *)
(* A thinking time that grows with the strength level *)
thinkTime_StrongerSlower(strength, r) == BaseTime + strength * LevelStep + r

thinkTime(strength, r) == BaseTime + (LevelTop - strength) * LevelStep + r

(* isPlayerTurn() *)
isPlayerTurn ==
  IF store.mode = "human" THEN TRUE
  ELSE turn(games[inst]) = store.playerSide /\ ~isAiThinking /\ ~isAiMakingMove

(* The re-render that follows a handler: the effect that starts the         *)
(* computer's first move, and the ChessTimer effect that restarts the       *)
(* interval when activeColor or isGameActive changed.                       *)
Render(s2, i2, gs2, th2, mk2, pr2, tm2, tl2, e) ==
  LET aiFirst == /\ s2.gameStarted
                 /\ s2.mode = "computer"
                 /\ s2.playerSide = "black"
                 /\ turn(gs2[i2]) = "white"
                 /\ ~mk2
      restart == \/ isGameActive(s2) # isGameActive(store)
                 \/ s2.activeColor # store.activeColor
                 \/ i2 # inst
  IN /\ store' = s2
     /\ inst' = i2
     /\ games' = gs2
     /\ isAiThinking' = th2
     /\ isAiMakingMove' = (mk2 \/ aiFirst)
     /\ promotionData' = pr2
     /\ timers' = IF aiFirst
                  THEN Append(tm2, Timer("makeAiMove", FirstMoveDelay, s2, i2,
                                         isGameOver(gs2[i2])))
                  ELSE tm2
     /\ tickLeft' = IF ~isGameActive(s2) THEN -1
                    ELSE IF restart THEN TickInterval ELSE tl2
     /\ lastAi' = e
     /\ stockfish' = stockfish

(* makeMove that never schedules the computer's reply *)
makeMove_NoRequest(st, pr2) ==
  LET g == games[inst]
      mover == turn(g)
      newGame == move(g, "human", mover, st)
      s1 == addTimeIncrementFor(store, store, mover)
      s2 == setActiveColor(s1, turn(newGame))
      s3 == checkGameEnd(s2, newGame)
  IN Render(s3, inst, [games EXCEPT ![inst] = newGame], isAiThinking,
            isAiMakingMove, pr2, timers, tickLeft, lastAi)

(* makeMove(from, to, promotion) of a move the rules engine accepts *)
makeMove(st, pr2) ==
  LET g == games[inst]
      mover == turn(g)  \* newGame.turn() is the other side
      newGame == move(g, "human", mover, st)
      s1 == addTimeIncrementFor(store, store, mover)
      s2 == setActiveColor(s1, turn(newGame))
      s3 == checkGameEnd(s2, newGame)
      aiShouldMove == /\ store.mode = "computer"
                      /\ turn(newGame) = Other(store.playerSide)
                      /\ ~isGameOver(newGame)
                      /\ ~isAiMakingMove
      aiDelay == IF store.playerSide = "black" THEN AiDelayBlack
                 ELSE AiDelayWhite
  IN Render(s3, inst, [games EXCEPT ![inst] = newGame], isAiThinking,
            isAiMakingMove \/ aiShouldMove, pr2,
            IF aiShouldMove
            THEN Append(timers, Timer("makeAiMove", aiDelay, store, inst,
                                      isGameOver(newGame)))
            ELSE timers,
            tickLeft, lastAi)

(* A user intent: the model follows MaxIntents of them *)
Intent == intents < MaxIntents /\ intents' = intents + 1

(* A handler that returns without changing anything *)
Rejected == UNCHANGED vars

(* onDrop without its guards for the match against the computer *)
onDropAllowed_NoComputerGuard(piece) ==
  /\ store.gameResult = NullResult
  /\ piece = turn(games[inst])

(* The guards of onDrop before the move is tried *)
onDropAllowed(piece) ==
  /\ store.gameResult = NullResult
  /\ store.mode = "computer" =>
       /\ piece = store.playerSide
       /\ piece = turn(games[inst])
       /\ ~store.isThinking
       /\ ~isAiMakingMove
  /\ piece = turn(games[inst])

(* onDrop that hands a move the rules engine rejects to makeMove *)
onDrop_CommitsIllegal(piece, attempt, st) ==
  /\ store.gameStarted
  /\ promotionData = NoPromotion  \* an open PromotionDialog covers the board
  /\ LET g == games[inst]
         ok == onDropAllowed(piece) /\ hasMoves(g)
     IN IF ok /\ attempt = "promotion"
        THEN /\ st = "ongoing"
             /\ Intent
             /\ Render(store, inst, games, isAiThinking, isAiMakingMove,
                       [color |-> piece, fresh |-> TRUE], timers, tickLeft,
                       lastAi)
        ELSE IF ok /\ attempt \in {"legal", "illegal"}
        THEN /\ Len(g.hist) < MaxPlies
             /\ Intent
             /\ makeMove(st, Stale(promotionData))
        ELSE /\ st = "ongoing"
             /\ Rejected

(* onDrop(sourceSquare, targetSquare): piece is the colour of the piece on  *)
(* the source square ("none": empty), attempt what the rules engine says    *)
(* of the move, st the status of the position after it.                     *)
onDrop(piece, attempt, st) ==
  /\ store.gameStarted
  /\ promotionData = NoPromotion  \* an open PromotionDialog covers the board
  /\ LET g == games[inst]
         ok == onDropAllowed(piece) /\ hasMoves(g)
     IN IF ok /\ attempt = "promotion"
        THEN /\ st = "ongoing"
             /\ Intent
             /\ Render(store, inst, games, isAiThinking, isAiMakingMove,
                       [color |-> piece, fresh |-> TRUE], timers, tickLeft,
                       lastAi)
        ELSE IF ok /\ attempt = "legal"
        THEN /\ Len(g.hist) < MaxPlies
             /\ Intent
             /\ makeMove(st, Stale(promotionData))
        ELSE /\ st = "ongoing"
             /\ Rejected

(* The guards of handleSquareClick *)
clickAllowed ==
  /\ store.gameResult = NullResult
  /\ store.mode = "computer" =>
       /\ turn(games[inst]) = store.playerSide
       /\ ~store.isThinking
       /\ ~isAiMakingMove

(* handleSquareClick that plays a promotion when its target is selected *)
handleSquareClick_MovesOnSelect(attempt, st) ==
  /\ store.gameStarted
  /\ promotionData = NoPromotion  \* an open PromotionDialog covers the board
  /\ LET g == games[inst]
         ok == clickAllowed /\ hasMoves(g)
     IN IF ok /\ attempt \in {"legal", "promotion"}
        THEN /\ Len(g.hist) < MaxPlies
             /\ Intent
             /\ makeMove(st, Stale(promotionData))
        ELSE /\ st = "ongoing"
             /\ Rejected

(* handleSquareClick on a highlighted target of the selected piece, then    *)
(* attemptMove(from, to): the selected piece is of the side to move.        *)
handleSquareClick(attempt, st) ==
  /\ store.gameStarted
  /\ promotionData = NoPromotion  \* an open PromotionDialog covers the board
  /\ LET g == games[inst]
         ok == clickAllowed /\ hasMoves(g)
     IN IF ok /\ attempt = "promotion"
        THEN /\ st = "ongoing"
             /\ Intent
             /\ Render(store, inst, games, isAiThinking, isAiMakingMove,
                       [color |-> turn(g), fresh |-> TRUE], timers, tickLeft,
                       lastAi)
        ELSE IF ok /\ attempt = "legal"
        THEN /\ Len(g.hist) < MaxPlies
             /\ Intent
             /\ makeMove(st, Stale(promotionData))
        ELSE /\ st = "ongoing"
             /\ Rejected

(* handlePromotion(piece): the move is legal in the position the dialog was *)
(* opened in; in another position the rules engine decides (legal).         *)
handlePromotion(legal, st) ==
  /\ store.gameStarted
  /\ promotionData # NoPromotion
  /\ Intent
  /\ LET g == games[inst]
         can == promotionData.color = turn(g) /\ hasMoves(g)
     IN /\ promotionData.fresh => legal = can
        /\ legal => can
        /\ IF legal
           THEN /\ Len(g.hist) < MaxPlies
                /\ makeMove(st, NoPromotion)
           ELSE /\ st = "ongoing"
                /\ Render(store, inst, games, isAiThinking, isAiMakingMove,
                          NoPromotion, timers, tickLeft,
                          lastAi)

(* The callbacks of an unmounted instance still run: their setState calls  *)
(* do nothing, their store calls act on the one global store.              *)
Live(t) == store.gameStarted /\ t.inst = inst

(* makeAiMove without the check that the computer is to move *)
makeAiMove_NoTurnCheck(i, r) ==
  LET t == timers[i]
      rest == RemoveAt(timers, i)
      currentGame == games[t.inst]
      aiColor == Other(t.snap.playerSide)
      goes == /\ t.snap.gameStarted
              /\ t.snap.gameResult = NullResult
              /\ ~t.over
              /\ t.snap.mode = "computer"
      s1 == setActiveColor(setThinking(store, TRUE), turn(currentGame))
      body == [t EXCEPT !.kind = "aiBody",
                        !.left = thinkTime(t.snap.aiStrength, r),
                        !.think = thinkTime(t.snap.aiStrength, r),
                        !.base = timeOf(store, aiColor),
                        !.issuedLive = isGameActive(store)]
  IN IF goes
     THEN Render(s1, inst, games,
                 IF Live(t) THEN TRUE ELSE isAiThinking,
                 IF Live(t) THEN TRUE ELSE isAiMakingMove,
                 promotionData, Append(rest, body), tickLeft,
                 lastAi)
     ELSE /\ r = 0
          /\ Render(store, inst, games, isAiThinking, isAiMakingMove,
                    promotionData, rest, tickLeft,
                    lastAi)

(* makeAiMove(), called by a timer: gameStore is the timer's snapshot *)
makeAiMove(i, r) ==
  LET t == timers[i]
      rest == RemoveAt(timers, i)
      currentGame == games[t.inst]
      aiColor == Other(t.snap.playerSide)
      goes == /\ t.snap.gameStarted
              /\ t.snap.gameResult = NullResult
              /\ ~t.over
              /\ t.snap.mode = "computer"
              /\ turn(currentGame) = aiColor
      s1 == setActiveColor(setThinking(store, TRUE), turn(currentGame))
      body == [t EXCEPT !.kind = "aiBody",
                        !.left = thinkTime(t.snap.aiStrength, r),
                        !.think = thinkTime(t.snap.aiStrength, r),
                        !.base = timeOf(store, aiColor),
                        !.issuedLive = isGameActive(store)]
  IN IF goes
     THEN Render(s1, inst, games,
                 IF Live(t) THEN TRUE ELSE isAiThinking,
                 IF Live(t) THEN TRUE ELSE isAiMakingMove,
                 promotionData, Append(rest, body), tickLeft,
                 lastAi)
     ELSE /\ r = 0
          /\ Render(store, inst, games, isAiThinking, isAiMakingMove,
                    promotionData, rest, tickLeft,
                    lastAi)

(* The increment the computer adds after its move, from its snapshot *)
aiIncrement(s, snap) ==
  LET aiColor == Other(snap.playerSide)
      increment == snap.timeControl.increment
      currentTime == timeOf(snap, aiColor)
  IN IF increment > 0 /\ currentTime > 0
     THEN updateTime(s, aiColor, currentTime + increment)
     ELSE s

(* The turn check of the timeout body before it moves *)
aiTurnCheck(snap, g) == turn(g) = Other(snap.playerSide)

(* The setTimeout callback of makeAiMove, with its finally block *)
aiBody(i, st) ==
  LET t == timers[i]
      fin == [t EXCEPT !.kind = "finally", !.left = FinallyDelay]
      rest == Append(RemoveAt(timers, i), fin)
      g == games[t.inst]
      newGame == move(g, "computer", Other(t.snap.playerSide), st)
      s1 == aiIncrement(store, t.snap)
      s2 == setActiveColor(s1, turn(newGame))
      s3 == checkGameEnd(s2, newGame)
  IN IF hasMoves(g) /\ aiTurnCheck(t.snap, g)
     THEN Render(s3, inst, [games EXCEPT ![t.inst] = newGame],
                 isAiThinking, isAiMakingMove,
                 IF Live(t) THEN Stale(promotionData) ELSE promotionData,
                 rest, tickLeft,
                 [n |-> lastAi.n + 1, live |-> Live(t), think |-> t.think,
                  base |-> t.base,
                  charged |-> t.base - timeOf(store, Other(t.snap.playerSide))])
     ELSE /\ st = "ongoing"
          /\ Render(setThinking(store, FALSE), inst, games,
                    IF Live(t) THEN FALSE ELSE isAiThinking,
                    IF Live(t) THEN FALSE ELSE isAiMakingMove,
                    promotionData, rest, tickLeft,
                    lastAi)

(* The setTimeout callback of the finally block *)
aiFinally(i) ==
  LET t == timers[i]
  IN Render(setThinking(store, FALSE), inst, games,
            IF Live(t) THEN FALSE ELSE isAiThinking,
            IF Live(t) THEN FALSE ELSE isAiMakingMove,
            promotionData, RemoveAt(timers, i), tickLeft,
            lastAi)

(* A timer is fired when its time has come, the oldest first *)
Due(i) ==
  /\ i \in 1..Len(timers)
  /\ timers[i].left = 0
  /\ \A j \in 1..(i - 1) : timers[j].left > 0

FireMakeAiMove ==
  /\ \E i \in 1..Len(timers) : \E r \in Jitter :
       Due(i) /\ timers[i].kind = "makeAiMove" /\ makeAiMove(i, r)
  /\ UNCHANGED intents

FireAiBody ==
  /\ \E i \in 1..Len(timers) : \E st \in Outcomes :
       Due(i) /\ timers[i].kind = "aiBody" /\ aiBody(i, st)
  /\ UNCHANGED intents

FireFinally ==
  /\ \E i \in 1..Len(timers) :
       Due(i) /\ timers[i].kind = "finally" /\ aiFinally(i)
  /\ UNCHANGED intents

----------------------------------------------------------------------------
(* The ChessTimer interval: src/src/components/GameStatus.tsx *)

(* The interval with onTimeUp naming the side that ran out as the winner *)
Tick_WrongWinner ==
  /\ tickLeft = 0
  /\ UNCHANGED intents
  /\ LET c == store.activeColor
         newTime == Max(0, timeOf(store, c) - 1)
         s1 == updateTime(store, c, newTime)
         s2 == IF newTime = 0
               THEN endGame(s1, [winner |-> c, reason |-> "time forfeit"])
               ELSE s1
     IN Render(s2, inst, games, isAiThinking, isAiMakingMove, promotionData,
               timers, TickInterval, lastAi)

Tick ==
  /\ tickLeft = 0
  /\ UNCHANGED intents
  /\ LET c == store.activeColor
         newTime == Max(0, timeOf(store, c) - 1)
         s1 == updateTime(store, c, newTime)
         s2 == IF newTime = 0
               THEN endGame(s1, [winner |-> Other(c), reason |-> "time forfeit"])
               ELSE s1
     IN Render(s2, inst, games, isAiThinking, isAiMakingMove, promotionData,
               timers, TickInterval, lastAi)

(* Time passes until the next timer or interval is due *)
Pending ==
  {timers[i].left : i \in 1..Len(timers)} \cup
  (IF tickLeft >= 0 THEN {tickLeft} ELSE {})

Advance ==
  /\ Pending # {}
  /\ 0 \notin Pending
  /\ LET d == CHOOSE x \in Pending : \A y \in Pending : x <= y
     IN /\ timers' = [i \in 1..Len(timers) |->
                        [timers[i] EXCEPT !.left = @ - d]]
        /\ tickLeft' = IF tickLeft >= 0 THEN tickLeft - d ELSE tickLeft
  /\ UNCHANGED <<store, inst, games, isAiThinking, isAiMakingMove,
                 promotionData, intents, lastAi, stockfish>>

----------------------------------------------------------------------------
(* The other intents of src/unnamed/part_005 and the setup screen *)

(* handleUndo that leaves a recorded result in place *)
handleUndo_KeepsResult ==
  /\ store.gameStarted
  /\ LET g == games[inst]
         newGame == undo(g)
         s1 == setActiveColor(store, turn(newGame))
     IN IF Len(g.hist) > 0
        THEN /\ Intent
             /\ Render(s1, inst, [games EXCEPT ![inst] = newGame],
                       isAiThinking, isAiMakingMove, Stale(promotionData),
                       Invalidate(timers), tickLeft, lastAi)
        ELSE Rejected

(* handleUndo that gives both sides their starting time back *)
handleUndo_ResetsClock ==
  /\ store.gameStarted
  /\ LET g == games[inst]
         newGame == undo(g)
         s1 == setActiveColor(setTimeControl(store, store.timeControl),
                              turn(newGame))
         s2 == IF store.gameResult # NullResult THEN startGame(s1) ELSE s1
     IN IF Len(g.hist) > 0
        THEN /\ Intent
             /\ Render(s2, inst, [games EXCEPT ![inst] = newGame],
                       isAiThinking, isAiMakingMove, Stale(promotionData),
                       Invalidate(timers), tickLeft, lastAi)
        ELSE Rejected

handleUndo ==
  /\ store.gameStarted
  /\ LET g == games[inst]
         newGame == undo(g)
         s1 == setActiveColor(store, turn(newGame))
         s2 == IF store.gameResult # NullResult THEN startGame(s1) ELSE s1
     IN IF Len(g.hist) > 0
        THEN /\ Intent
             /\ Render(s2, inst, [games EXCEPT ![inst] = newGame],
                       isAiThinking, isAiMakingMove, Stale(promotionData),
                       Invalidate(timers), tickLeft, lastAi)
        ELSE Rejected

(* The Forfeit button, rendered while the match is live *)
Forfeit ==
  /\ isGameActive(store)
  /\ Intent
  /\ LET winner == IF isPlayerTurn THEN Other(store.playerSide)
                   ELSE store.playerSide
     IN Render(endGame(store, [winner |-> winner, reason |-> "forfeit"]),
               inst, games, isAiThinking, isAiMakingMove, promotionData,
               timers, tickLeft, lastAi)

(* Play Again, rendered in the result modal *)
startNewGameSameSettings ==
  /\ store.gameStarted
  /\ store.gameResult # NullResult
  /\ Intent
  /\ LET s1 == setActiveColor(setTimeControl(store, store.timeControl), "white")
         s2 == startGame(s1)
         aiFirst == store.mode = "computer" /\ store.playerSide = "black"
         s3 == IF aiFirst THEN setThinking(s2, FALSE) ELSE s2
     IN Render(s3, inst, [games EXCEPT ![inst] = NewChess],
               IF aiFirst THEN FALSE ELSE isAiThinking,
               IF aiFirst THEN TRUE ELSE isAiMakingMove,
               Stale(promotionData),
               IF aiFirst
               THEN Append(Invalidate(timers),
                           Timer("makeAiMove", PlayAgainDelay, store, inst,
                                 isGameOver(games[inst])))
               ELSE Invalidate(timers),
               tickLeft, lastAi)

(* New Game (always rendered) and Main Menu (in the result modal): the      *)
(* store is reset and App unmounts ChessGame.                               *)
onNewGame ==
  /\ store.gameStarted
  /\ Intent
  /\ Render(resetGame(store), inst, games, FALSE, FALSE, NoPromotion,
            Invalidate(timers), tickLeft, lastAi)

(* handleStartGame of the setup screen: a new ChessGame is mounted *)
handleStartGame(mode, side, tc, strength) ==
  /\ ~store.gameStarted
  /\ inst < MaxInst
  /\ Intent
  /\ LET s1 == [store EXCEPT !.mode = mode, !.playerSide = side]
         s2 == setTimeControl(s1, tc)
         s3 == startGame([s2 EXCEPT !.aiStrength = strength])
     IN Render(s3, inst + 1, [games EXCEPT ![inst + 1] = NewChess],
               FALSE, FALSE, NoPromotion, timers, tickLeft,
               lastAi)

----------------------------------------------------------------------------
(* The specification *)

TimeControls ==
  {[secs |-> ClockSecs, increment |-> n] : n \in {0, MaxIncrement}}

Attempts == {"legal", "illegal", "promotion"}

Pieces == {"none", "white", "black"}

Init ==
  /\ store = initialState
  /\ inst = 0
  /\ games = [i \in 1..MaxInst |-> NewChess]
  /\ isAiThinking = FALSE
  /\ isAiMakingMove = FALSE
  /\ promotionData = NoPromotion
  /\ timers = <<>>
  /\ tickLeft = -1
  /\ intents = 0
  /\ lastAi = NoAiMove
  /\ stockfish = NoWorker

Next ==
  \/ \E m \in Modes, side \in {"white", "black"}, tc \in TimeControls,
        k \in Strengths : handleStartGame(m, side, tc, k)
  \/ \E piece \in Pieces, a \in Attempts, st \in Outcomes : onDrop(piece, a, st)
  \/ \E a \in Attempts, st \in Outcomes : handleSquareClick(a, st)
  \/ \E legal \in BOOLEAN, st \in Outcomes : handlePromotion(legal, st)
  \/ handleUndo
  \/ Forfeit
  \/ startNewGameSameSettings
  \/ onNewGame
  \/ FireMakeAiMove
  \/ FireAiBody
  \/ FireFinally
  \/ Tick
  \/ Advance

Spec == Init /\ [][Next]_vars

(* Matches played at the strength level the store starts with, which the   *)
(* setup screen offers unless the user picks another one.                   *)
NextDefault ==
  \/ \E m \in Modes, side \in {"white", "black"}, tc \in TimeControls :
        handleStartGame(m, side, tc, InitialStrength)
  \/ \E piece \in Pieces, a \in Attempts, st \in Outcomes : onDrop(piece, a, st)
  \/ \E a \in Attempts, st \in Outcomes : handleSquareClick(a, st)
  \/ \E legal \in BOOLEAN, st \in Outcomes : handlePromotion(legal, st)
  \/ handleUndo
  \/ Forfeit
  \/ startNewGameSameSettings
  \/ onNewGame
  \/ FireMakeAiMove
  \/ FireAiBody
  \/ FireFinally
  \/ Tick
  \/ Advance

SpecDefault == Init /\ [][NextDefault]_vars

(* A match that is played on: no undo, no Play Again, no New Game.  The    *)
(* browser runs every timeout and interval callback that is due, and time  *)
(* passes.                                                                  *)
NextPlay ==
  \/ \E m \in Modes, side \in {"white", "black"}, tc \in TimeControls,
        k \in Strengths : handleStartGame(m, side, tc, k)
  \/ \E piece \in Pieces, a \in Attempts, st \in Outcomes : onDrop(piece, a, st)
  \/ \E a \in Attempts, st \in Outcomes : handleSquareClick(a, st)
  \/ \E legal \in BOOLEAN, st \in Outcomes : handlePromotion(legal, st)
  \/ Forfeit
  \/ FireMakeAiMove
  \/ FireAiBody
  \/ FireFinally
  \/ Tick
  \/ Advance

EventLoop ==
  /\ WF_vars(FireMakeAiMove)
  /\ WF_vars(FireAiBody)
  /\ WF_vars(FireFinally)
  /\ WF_vars(Tick)
  /\ WF_vars(Advance)

SpecPlay == Init /\ [][NextPlay]_vars /\ EventLoop

(* Matches against the computer at every strength level of the setup       *)
(* screen, with New Game in between, so that requests of two levels are     *)
(* issued in one run.                                                       *)
Levels == 1..7

NextLevels ==
  \/ \E m \in Modes, side \in {"white", "black"}, tc \in TimeControls,
        k \in Levels : handleStartGame(m, side, tc, k)
  \/ onNewGame
  \/ FireMakeAiMove
  \/ FireAiBody
  \/ FireFinally
  \/ Tick
  \/ Advance

SpecLevels == Init /\ [][NextLevels]_vars

----------------------------------------------------------------------------
(* The ChessGame component that plays through the engine worker:           *)
(* src/src/components/ChessGame.tsx.  The worker answers a request with a  *)
(* move string or with no move; the string is checked by the rules engine  *)
(* only when handleAiMove plays it on the position of that moment.         *)

Answers == {"legal", "illegal", "none"}

(* handleAiMove(moveString): the store it leaves *)
handleAiMove(s, g, answer, st) ==
  LET newGame == move(g, "computer", turn(g), st)
      s1 == setActiveColor(s, turn(newGame))
      s2 == addTimeIncrementFor(s1, s, turn(g))
  IN IF answer = "legal"
     THEN checkGameEnd(s2, newGame)
     ELSE setThinking(s, FALSE)  \* game.move throws: the catch block

(* The callback given to useStockfish, run when the worker posts bestmove; *)
(* the hook does not call it for a null move.                              *)
onBestMove(answer, st) ==
  /\ store.gameStarted
  /\ store.isThinking
  /\ answer = "legal" => hasMoves(games[inst])
  /\ LET g == games[inst]
         isAiTurn == turn(g) = Other(store.playerSide)
         handled == /\ store.mode = "computer"
                    /\ store.gameResult = NullResult
                    /\ isAiTurn
         played == handled /\ answer = "legal"
     IN /\ ~played => st = "ongoing"
        /\ store' = IF answer = "none" THEN store
                    ELSE IF handled
                    THEN setThinking(handleAiMove(store, g, answer, st), FALSE)
                    ELSE setThinking(store, FALSE)
        /\ games' = IF played
                    THEN [games EXCEPT ![inst] = move(g, "computer", turn(g), st)]
                    ELSE games
  /\ UNCHANGED <<inst, isAiThinking, isAiMakingMove, promotionData, timers,
                 tickLeft, intents, lastAi, stockfish>>

(* The histories of the matches the worker's answer may arrive in *)
EngineHistories ==
  {<<>>,
   <<[by |-> "human", side |-> "white", from |-> "ongoing"]>>,
   <<[by |-> "computer", side |-> "white", from |-> "ongoing"],
     [by |-> "human", side |-> "black", from |-> "ongoing"]>>}

(* A match against the engine in which a request is outstanding *)
InitEngine ==
  /\ \E side \in {"white", "black"}, tc \in TimeControls,
        w \in 1..ClockSecs, b \in 1..ClockSecs, h \in EngineHistories,
        r \in {NullResult, [winner |-> "white", reason |-> "forfeit"]} :
       /\ \A k \in 1..Len(h) :
            h[k].by = (IF h[k].side = side THEN "human" ELSE "computer")
       /\ store = [initialState EXCEPT
                     !.playerSide = side, !.timeControl = tc,
                     !.gameStarted = TRUE, !.gameResult = r,
                     !.whiteTime = w, !.blackTime = b,
                     !.activeColor = turn([hist |-> h, status |-> "ongoing"]),
                     !.isThinking = TRUE]
       /\ games = [i \in 1..MaxInst |->
                     IF i = 1 THEN [hist |-> h, status |-> "ongoing"]
                     ELSE NewChess]
  /\ inst = 1
  /\ isAiThinking = FALSE
  /\ isAiMakingMove = FALSE
  /\ promotionData = NoPromotion
  /\ timers = <<>>
  /\ tickLeft = TickInterval
  /\ intents = 0
  /\ lastAi = NoAiMove
  /\ stockfish = NoWorker

NextEngine == \E answer \in Answers, st \in Outcomes : onBestMove(answer, st)

SpecEngine == InitEngine /\ [][NextEngine]_vars

----------------------------------------------------------------------------
(* Steps and states the claims speak of *)

NumKind(q, k) == Cardinality({i \in 1..Len(q) : q[i].kind = k})

(* The step is the firing of a makeAiMove timeout body *)
AiBodyStep == NumKind(timers', "aiBody") < NumKind(timers, "aiBody")

(* The timer that fires in a timer step *)
Fired == timers[CHOOSE i \in 1..Len(timers) : Due(i)]

(* The step is the firing of a scheduled makeAiMove call *)
MakeAiMoveStep == NumKind(timers', "makeAiMove") < NumKind(timers, "makeAiMove")

(* The step commits a computer move; on the mounted instance's board *)
AiCommitStep == lastAi'.n # lastAi.n

LiveAiCommitStep == AiCommitStep /\ lastAi'.live

(* A computer-move request has been issued and its callback has not run *)
RequestOutstanding == NumKind(timers, "aiBody") > 0

Terminal == store.gameStarted /\ store.gameResult # NullResult

(* What a commit may change: position, history, clocks, active colour, result *)
MatchState ==
  <<games, store.whiteTime, store.blackTime, store.activeColor,
    store.gameResult>>

Alternates(h) == \A k \in 1..(Len(h) - 1) : h[k].side # h[k + 1].side

----------------------------------------------------------------------------
(* The moves of every history are made by alternating sides *)
C1_Alternation == \A i \in 1..MaxInst : Alternates(games[i].hist)

(* The computer commits on the board of the match only when it is on turn *)
C1_ComputerOnTurn ==
  LiveAiCommitStep =>
    /\ store.mode = "computer"
    /\ turn(games[inst]) = Other(store.playerSide)
    /\ store.activeColor = Other(store.playerSide)

(* C1: turn integrity.  In every history the committed moves are made by   *)
(* alternating sides, and the computer commits a move on the board of the  *)
(* match only in a state where the mode is human-vs-computer and both the  *)
(* side to move and the active colour are the side opposite to playerSide. *)
C1_TurnIntegrity == [](C1_Alternation) /\ [][C1_ComputerOnTurn]_vars

(* C2: single mover.  With playerSide = black against the computer the     *)
(* first move of the history is the computer's, as White, and no two       *)
(* consecutive moves of a history are both the computer's.                 *)
C2_SingleMover ==
  /\ (store.gameStarted /\ store.mode = "computer"
        /\ store.playerSide = "black" /\ Len(games[inst].hist) > 0) =>
       /\ games[inst].hist[1].by = "computer"
       /\ games[inst].hist[1].side = "white"
  /\ \A i \in 1..MaxInst : \A k \in 1..(Len(games[i].hist) - 1) :
       ~(games[i].hist[k].by = "computer" /\ games[i].hist[k + 1].by = "computer")

(* The computer opened as White and the human answered *)
C2_Witness ==
  /\ store.gameStarted
  /\ store.mode = "computer"
  /\ store.playerSide = "black"
  /\ store.gameResult = NullResult
  /\ Len(games[inst].hist) = 2
  /\ games[inst].hist[1].by = "computer"
  /\ games[inst].hist[2].by = "human"

(* C3: the callback of a computer-move request that was issued in a live   *)
(* match and fires when the match is terminal changes neither position,    *)
(* history, clocks, active colour nor result.                              *)
C3_LateMoveIsNoOp ==
  [][(AiBodyStep /\ Terminal /\ Fired.issuedLive) =>
       MatchState' = MatchState]_vars

(* C4: a computer-move request that was pending when a new match was      *)
(* started or a move was undone changes nothing when it runs later:        *)
(* position, history, clocks, active colour and result stay as they are    *)
(* and the thinking flag is not raised.                                    *)
C4_StaleRequestDropped ==
  [][(AiBodyStep /\ Fired.stale) =>
       /\ MatchState' = MatchState
       /\ store'.isThinking => store.isThinking]_vars

(* C5: in a step of a live match in which the remaining time of the active *)
(* side reaches 0, the match becomes terminal: the other side wins by time *)
(* forfeit.                                                                *)
C5_TimeForfeit ==
  [][\A c \in {"white", "black"} :
       (isGameActive(store) /\ store.activeColor = c
          /\ timeOf(store, c) > 0 /\ timeOf(store', c) = 0) =>
         /\ store'.gameStarted
         /\ store'.gameResult = [winner |-> Other(c), reason |-> "time forfeit"]]_vars

(* The computer ran out of time while its request was outstanding *)
C5_Witness ==
  /\ store.gameStarted
  /\ store.mode = "computer"
  /\ store.gameResult = [winner |-> store.playerSide, reason |-> "time forfeit"]
  /\ timeOf(store, Other(store.playerSide)) = 0
  /\ \E i \in 1..Len(timers) :
       timers[i].kind = "aiBody" /\ timers[i].inst = inst /\ timers[i].issuedLive

(* The same match goes on: no new match is mounted or started in the step *)
SameMatch ==
  /\ store.gameStarted /\ store'.gameStarted
  /\ inst' = inst
  /\ ~(Terminal /\ ~Terminal')

(* The step commits a move of side c on the board of the match *)
Commits(c) ==
  /\ inst' = inst
  /\ Len(games'[inst].hist) = Len(games[inst].hist) + 1
  /\ games'[inst].hist[Len(games'[inst].hist)].side = c

(* C6: in a terminal match a step either leaves position, history and both *)
(* clocks as they are, or it is an undo or a new game, which are the only  *)
(* steps that leave the terminal state.                                    *)
C6_TerminalIsFinal ==
  [][Terminal =>
       IF Terminal'
       THEN /\ inst' = inst
            /\ games'[inst] = games[inst]
            /\ store'.whiteTime = store.whiteTime
            /\ store'.blackTime = store.blackTime
       ELSE intents' # intents]_vars

(* C7: within a match a clock goes up only by the increment, in the step   *)
(* that commits a move of its side, and goes down only while its side is   *)
(* the active colour.                                                      *)
C7_ClockMonotone ==
  [][SameMatch =>
       \A c \in {"white", "black"} :
         /\ timeOf(store', c) > timeOf(store, c) =>
              /\ Commits(c)
              /\ timeOf(store', c) = timeOf(store, c) + store.timeControl.increment
         /\ timeOf(store', c) < timeOf(store, c) => store.activeColor = c]_vars

(* C8: the step that commits a move of side S adds the increment to the    *)
(* time S has in the store and leaves the other time alone; the step that  *)
(* starts a computer request changes no time.                              *)
C8_IncrementOnCommit ==
  [][/\ \A c \in {"white", "black"} :
          (store.gameStarted /\ Commits(c)) =>
            /\ timeOf(store', c) = timeOf(store, c) + store.timeControl.increment
            /\ timeOf(store', Other(c)) = timeOf(store, Other(c))
     /\ MakeAiMoveStep =>
          /\ store'.whiteTime = store.whiteTime
          /\ store'.blackTime = store.blackTime]_vars

(* A request of the mounted match is outstanding *)
LiveRequest ==
  \E i \in 1..Len(timers) : timers[i].kind = "aiBody" /\ timers[i].inst = inst

(* C9: while a request is outstanding in a live match against the computer *)
(* the active colour is the computer's side and the human's time does not  *)
(* change; the commit of the computer's move makes the human's side the    *)
(* active colour.                                                          *)
C9_ThinkingOnComputerClock ==
  [][(isGameActive(store) /\ store.mode = "computer" /\ LiveRequest) =>
       /\ store.activeColor = Other(store.playerSide)
       /\ SameMatch =>
            timeOf(store', store.playerSide) = timeOf(store, store.playerSide)
       /\ LiveAiCommitStep => store'.activeColor = store.playerSide]_vars

(* C10: at the commit of a computer move whose request was issued in the   *)
(* live match and met no undo or new game, the time taken from the         *)
(* computer since the request was issued is the time that passed, to       *)
(* within one tick, and the write of the commit adds the increment to it   *)
(* and nothing else.                                                       *)
C10_ChargedElapsed ==
  [][(LiveAiCommitStep /\ isGameActive(store)
        /\ Fired.issuedLive /\ ~Fired.stale) =>
       LET aiColor == Other(store.playerSide)
           charged == lastAi'.charged * TickInterval
       IN /\ charged >= lastAi'.think - TickInterval
          /\ charged <= lastAi'.think + TickInterval
          /\ timeOf(store', aiColor) =
               timeOf(store, aiColor) + store.timeControl.increment]_vars

(* Time the active side has run since the last tick or interval restart *)
Uncharged == TickInterval - tickLeft

(* The step ends a stretch in which one side was active in the live match *)
StretchEnds ==
  /\ isGameActive(store) /\ isGameActive(store')
  /\ inst' = inst
  /\ store'.activeColor # store.activeColor

(* C11: a tick takes from the active side the time that passed since the   *)
(* previous tick, clamped at 0, and when a move ends the stretch in which  *)
(* a side was active no time that side has run is left untaken: the total  *)
(* taken is the length of the stretch.                                     *)
C11_ExactElapsed ==
  [][/\ Tick => timeOf(store', store.activeColor) * TickInterval =
                  Max(0, timeOf(store, store.activeColor) * TickInterval
                           - TickInterval)
     /\ StretchEnds => Uncharged = 0]_vars

(* C12: once a side has no time left and has lost on time, a step that     *)
(* leaves the match terminal leaves that side's time at 0 and the result   *)
(* as it is.                                                               *)
C12_ZeroTimeIdempotent ==
  [][\A c \in {"white", "black"} :
       (/\ Terminal /\ Terminal' /\ inst' = inst
        /\ timeOf(store, c) = 0
        /\ store.gameResult = [winner |-> Other(c), reason |-> "time forfeit"]) =>
         /\ timeOf(store', c) = 0
         /\ store'.gameResult = store.gameResult]_vars

(* The step starts a match: from the setup screen or by Play Again *)
StartsMatch ==
  \/ ~store.gameStarted /\ store'.gameStarted
  \/ Terminal /\ ~Terminal'

(* C13: no step takes time from both sides, a tick takes time from the     *)
(* active colour only, and no step that does not start a match takes time  *)
(* from a side while the match is not live.                                *)
C13_OneClockRuns ==
  [][/\ ~(store'.whiteTime < store.whiteTime /\ store'.blackTime < store.blackTime)
        \/ StartsMatch \/ ~store'.gameStarted
     /\ Tick => /\ isGameActive(store)
                /\ timeOf(store', Other(store.activeColor)) =
                     timeOf(store, Other(store.activeColor))
     /\ (~isGameActive(store) /\ ~StartsMatch) =>
          /\ store'.whiteTime >= store.whiteTime
          /\ store'.blackTime >= store.blackTime]_vars

(* C14: a forfeit ends the match with reason forfeit; against the computer *)
(* the computer's side wins, between two humans the opponent of the side   *)
(* to move wins.                                                           *)
C14_ForfeitWinner ==
  [][Forfeit =>
       /\ store'.gameStarted
       /\ store'.gameResult =
            [winner |-> IF store.mode = "computer"
                        THEN Other(store.playerSide)
                        ELSE Other(turn(games[inst])),
             reason |-> "forfeit"]]_vars

(* The history without its last move, in the position that move was made in *)
Before(g) ==
  [hist |-> SubSeq(g.hist, 1, Len(g.hist) - 1),
   status |-> g.hist[Len(g.hist)].from]

(* The last committed move of the match is the computer's *)
LastByComputer ==
  /\ Len(games[inst].hist) > 0
  /\ games[inst].hist[Len(games[inst].hist)].by = "computer"

(* C15: against the computer, an undo in the live match right after the    *)
(* computer's move, when its timeout chain has ended, restores the         *)
(* position before that move, makes the computer's side the active colour *)
(* and leaves exactly one call of makeAiMove scheduled.                    *)
C15_UndoReissues ==
  [][(/\ handleUndo
      /\ isGameActive(store) /\ store.mode = "computer"
      /\ LastByComputer /\ timers = <<>>) =>
       /\ games'[inst] = Before(games[inst])
       /\ store'.activeColor = Other(store.playerSide)
       /\ NumKind(timers', "makeAiMove") + NumKind(timers', "aiBody") = 1]_vars

(* C16: an undo in a terminal match with a move in its history removes the *)
(* last move, makes the side that made it the active colour and clears the *)
(* result: the match is live again.                                        *)
C16_UndoFromTerminal ==
  [][(handleUndo /\ Terminal /\ Len(games[inst].hist) > 0) =>
       /\ inst' = inst
       /\ games'[inst] = Before(games[inst])
       /\ store'.activeColor = games[inst].hist[Len(games[inst].hist)].side
       /\ store'.activeColor = turn(games'[inst])
       /\ isGameActive(store')]_vars

(* A live match in which a side has no time left: a time forfeit was undone *)
C16_Witness ==
  /\ isGameActive(store)
  /\ store.whiteTime = 0 \/ store.blackTime = 0

(* The timeouts of the mounted match that are pending *)
OwnTimers == {i \in 1..Len(timers) : timers[i].inst = inst}

(* The scheduled makeAiMove calls and the requests of the mounted match *)
OwnRequests ==
  {i \in OwnTimers : timers[i].kind \in {"makeAiMove", "aiBody"}}

(* C17: in a live match against the computer with playerSide black and no  *)
(* move made yet, White's first move is on its way without human input: a  *)
(* timeout of the match is pending (the scheduled makeAiMove call, the     *)
(* request, or the finally block after which the effect runs again).       *)
C17_FirstMoveRequested ==
  (/\ isGameActive(store)
   /\ store.mode = "computer"
   /\ store.playerSide = "black"
   /\ games[inst].hist = <<>>
   /\ hasMoves(games[inst])) => OwnTimers # {}

(* C18: at most one computer-move request, scheduled or thinking, is       *)
(* outstanding in the mounted match.                                       *)
C18_OneRequest == store.gameStarted => Cardinality(OwnRequests) <= 1

(* C19: the thinking flag of the store is set exactly in the states in     *)
(* which a request of the mounted match is outstanding.                    *)
C19_ThinkingFlag == store.isThinking <=> (store.gameStarted /\ LiveRequest)

(* The least thinking time of a strength level *)
Floor(strength) == thinkTime(strength, 0)

(* C20: at the commit of a computer move in the live match, for a request  *)
(* issued in the live match that met no undo or new game, the time since   *)
(* the request was issued, and the time taken from the computer's clock    *)
(* in between, are at least the least thinking time of the level.          *)
C20_ThinkingFloor ==
  [][(LiveAiCommitStep /\ isGameActive(store)
        /\ Fired.issuedLive /\ ~Fired.stale) =>
       /\ lastAi'.think >= Floor(Fired.snap.aiStrength)
       /\ lastAi'.charged * TickInterval >= Floor(Fired.snap.aiStrength)]_vars

(* The step issues a computer-move request: makeAiMove passed its guards   *)
IssueStep ==
  /\ MakeAiMoveStep
  /\ NumKind(timers', "aiBody") > NumKind(timers, "aiBody")

(* The request issued in an issue step *)
Issued == timers'[Len(timers')]

(* C21: the thinking delay of a request issued in the live match by the    *)
(* mounted instance is at most the time the computer's side has left when  *)
(* the request is issued.                                                  *)
C21_ThinkWithinClock ==
  [][(IssueStep /\ isGameActive(store) /\ Fired.inst = inst) =>
       Issued.think <= Issued.base * TickInterval]_vars

(* What an attempt must leave alone: the match state and the thinking flag *)
Unchanged == MatchState' = MatchState /\ store'.isThinking = store.isThinking

(* C22: in a live match, a drop or a click of the side to move that the    *)
(* rules engine rejects, and the choice of a promotion piece for a move it *)
(* rejects, change neither position, history, clocks, active colour,       *)
(* thinking flag nor result; the handler returns through its rejection     *)
(* path, which counts no move.                                             *)
C22_IllegalIsRejected ==
  [][/\ \A st \in Outcomes :
          (isGameActive(store) /\ onDrop(turn(games[inst]), "illegal", st)) =>
            Unchanged /\ Rejected
     /\ \A st \in Outcomes :
          (isGameActive(store) /\ handleSquareClick("illegal", st)) =>
            Unchanged /\ Rejected
     /\ \A st \in Outcomes :
          (isGameActive(store) /\ handlePromotion(FALSE, st)) => Unchanged]_vars

(* The side to move, after a first move, may attempt a move: every guard   *)
(* of onDrop passes and the rules engine is asked                          *)
C22_Witness ==
  /\ isGameActive(store)
  /\ Len(games[inst].hist) > 0
  /\ hasMoves(games[inst])
  /\ onDropAllowed(turn(games[inst]))
  /\ intents < MaxIntents

(* Against the computer, a piece of colour `piece` may not be moved now:   *)
(* it is not of the side to move, it is the computer's, or a request of    *)
(* the match is scheduled or outstanding.                                  *)
OutOfTurn(piece) ==
  \/ piece # turn(games[inst])
  \/ piece # store.playerSide
  \/ OwnRequests # {}

(* C23: in a live match against the computer, a drop, a click or a         *)
(* promotion choice made out of turn changes neither position, history,    *)
(* clocks, active colour nor result.                                       *)
C23_OutOfTurnRejected ==
  [][(isGameActive(store) /\ store.mode = "computer") =>
       /\ \A piece \in {"white", "black"}, a \in Attempts, st \in Outcomes :
            (OutOfTurn(piece) /\ onDrop(piece, a, st)) => MatchState' = MatchState
       /\ \A a \in Attempts, st \in Outcomes :
            (OutOfTurn(turn(games[inst])) /\ handleSquareClick(a, st)) =>
              MatchState' = MatchState
       /\ \A legal \in BOOLEAN, st \in Outcomes :
            (OutOfTurn(promotionData.color) /\ handlePromotion(legal, st)) =>
              MatchState' = MatchState]_vars

(* The result that the position after a move of side c calls for *)
ResultOf(g, c) ==
  IF g.status = "checkmate" THEN [winner |-> c, reason |-> "checkmate"]
  ELSE IF g.status = "ongoing" THEN NullResult
  ELSE [winner |-> "none", reason |-> g.status]

ChessReasons ==
  (Outcomes \ {"ongoing"}) \cup {"forfeit", "time forfeit"}

(* The worker's answer arrives in a live match against the computer with   *)
(* the computer to move in a position that is not over                     *)
AwaitingAnswer ==
  /\ isGameActive(store)
  /\ store.mode = "computer"
  /\ store.isThinking
  /\ turn(games[inst]) = Other(store.playerSide)
  /\ ~isGameOver(games[inst])

(* C25: when the worker's answer is a move the rules engine rejects, or no *)
(* move although the position is not over, the position and the active     *)
(* colour stay as they are, no result of a game of chess is recorded, and  *)
(* the match is live no longer: it is in a state of its own that ends play. *)
C25_ErrorState ==
  [][\A answer \in {"illegal", "none"} :
       (AwaitingAnswer /\ onBestMove(answer, "ongoing")) =>
         /\ games' = games
         /\ store'.activeColor = store.activeColor
         /\ store'.gameResult.reason \notin ChessReasons
         /\ ~isGameActive(store')]_vars

(* The step starts a match from the setup screen *)
StartFromSetup ==
  \E m \in Modes, side \in {"white", "black"}, tc \in TimeControls,
     k \in Strengths : handleStartGame(m, side, tc, k)

(* C26: the step that starts a match, from the setup screen or by Play     *)
(* Again, leaves the initial match state: no move in the history, the      *)
(* start position, both times at the time control's seconds, White the     *)
(* active colour, no result and the thinking flag down.                    *)
C26_FreshStart ==
  [][(StartFromSetup \/ startNewGameSameSettings) =>
       /\ isGameActive(store')
       /\ games'[inst'] = NewChess
       /\ store'.whiteTime = store'.timeControl.secs
       /\ store'.blackTime = store'.timeControl.secs
       /\ store'.activeColor = "white"
       /\ ~store'.isThinking]_vars

(* C27: in a live match the active colour of the store is the side to move *)
(* of the position on the board.                                           *)
C27_ActiveIsSideToMove ==
  isGameActive(store) => store.activeColor = turn(games[inst])

(* The computer is to move in a live match and the position has a move *)
ComputerToMove ==
  /\ isGameActive(store)
  /\ store.mode = "computer"
  /\ turn(games[inst]) = Other(store.playerSide)
  /\ hasMoves(games[inst])

(* The step commits a human move after which the computer is to move *)
HumanCommitStep ==
  /\ store.gameStarted
  /\ store.mode = "computer"
  /\ Commits(store.playerSide)
  /\ games'[inst].hist[Len(games'[inst].hist)].by = "human"
  /\ ComputerToMove'

(* The computer's reply is on the board and the human is to move again *)
Replied ==
  /\ store.gameStarted
  /\ LastByComputer
  /\ turn(games[inst]) = store.playerSide

(* C28: in a match that is played on (no undo, Play Again or New Game),    *)
(* the step that commits a human move against the computer and leaves the  *)
(* computer to move schedules the computer's reply; while the computer is  *)
(* to move in the live match one of its timeouts is pending; and from then *)
(* on the reply is eventually committed, with the human to move again, or  *)
(* the match has ended.                                                    *)
C28_ReplyFollows ==
  /\ [][HumanCommitStep =>
          \E i \in 1..Len(timers') :
            /\ timers'[i].inst = inst
            /\ timers'[i].kind = "makeAiMove"]_vars
  /\ [](ComputerToMove => OwnTimers # {})
  /\ (ComputerToMove ~> (Replied \/ ~isGameActive(store)))

(* The human moved, the computer replied, and the match is still live *)
C28_Witness ==
  /\ isGameActive(store)
  /\ store.mode = "computer"
  /\ store.playerSide = "white"
  /\ Len(games[inst].hist) = 2
  /\ games[inst].hist[1].by = "human"
  /\ games[inst].hist[2].by = "computer"

(* The step is taken by a handler of a human move *)
HumanHandlerStep ==
  \/ \E piece \in Pieces, a \in Attempts, st \in Outcomes : onDrop(piece, a, st)
  \/ \E a \in Attempts, st \in Outcomes : handleSquareClick(a, st)
  \/ \E legal \in BOOLEAN, st \in Outcomes : handlePromotion(legal, st)

(* The move that the step commits is a human's *)
HumanCommit == games'[inst].hist[Len(games'[inst].hist)].by = "human"

(* C29: a handler of a human move changes a clock or the active colour     *)
(* only in the step in which the rules engine accepts the move; that step  *)
(* adds the increment to the mover, makes the other side the active colour *)
(* and issues no request, the call it schedules running later; and every   *)
(* request is issued for a board on which the computer's side is to move.  *)
C29_CommitOrder ==
  [][/\ (/\ intents' # intents
         /\ \/ store'.activeColor # store.activeColor
            \/ store'.whiteTime # store.whiteTime
            \/ store'.blackTime # store.blackTime
         /\ HumanHandlerStep) =>
          Commits(turn(games[inst]))
     /\ \A c \in {"white", "black"} :
          (Commits(c) /\ HumanCommit) =>
            /\ timeOf(store', c) = timeOf(store, c) + store.timeControl.increment
            /\ timeOf(store', Other(c)) = timeOf(store, Other(c))
            /\ store'.activeColor = Other(c)
            /\ NumKind(timers', "aiBody") = NumKind(timers, "aiBody")
            /\ \A i \in (Len(timers) + 1)..Len(timers') : timers'[i].left > 0
     /\ IssueStep =>
          /\ Fired.snap.mode = "computer"
          /\ turn(games[Fired.inst]) = Other(Fired.snap.playerSide)]_vars

(* A request is outstanding in the live match and the last move on the     *)
(* board is the human's, who received the increment                        *)
C29_Witness ==
  /\ isGameActive(store)
  /\ LiveRequest
  /\ store.timeControl.increment > 0
  /\ Len(games[inst].hist) > 0
  /\ games[inst].hist[Len(games[inst].hist)].by = "human"
  /\ timeOf(store, store.playerSide) > ClockSecs

(* The step selects the target square of a promotion the rules engine      *)
(* accepts with a queen                                                    *)
SelectsPromotion ==
  \/ \E piece \in Pieces : onDrop(piece, "promotion", "ongoing")
  \/ handleSquareClick("promotion", "ongoing")

(* The step attempts a move the rules engine rejects *)
AttemptsIllegal ==
  \/ \E piece \in Pieces : onDrop(piece, "illegal", "ongoing")
  \/ handleSquareClick("illegal", "ongoing")

(* C30: selecting the target square of a legal promotion opens the choice  *)
(* of a piece and changes neither position, history, clocks, active        *)
(* colour, result nor thinking flag; choosing the piece closes the choice  *)
(* and, when the rules engine accepts the move, commits it, adds the       *)
(* increment to the mover and makes the other side the active colour in    *)
(* that one step, and otherwise changes no match state; an attempt the     *)
(* rules engine rejects opens no choice.                                   *)
C30_PromotionAtomic ==
  [][/\ (intents' # intents /\ SelectsPromotion) =>
          /\ Unchanged
          /\ promotionData' # NoPromotion
          /\ promotionData'.fresh
     /\ \A legal \in BOOLEAN, st \in Outcomes :
          (/\ intents' # intents
           /\ promotionData # NoPromotion
           /\ handlePromotion(legal, st)) =>
            /\ promotionData' = NoPromotion
            /\ IF legal
               THEN LET mover == turn(games[inst])
                    IN /\ Commits(mover)
                       /\ HumanCommit
                       /\ timeOf(store', mover) =
                            timeOf(store, mover) + store.timeControl.increment
                       /\ store'.activeColor = Other(mover)
               ELSE MatchState' = MatchState
     /\ ~(promotionData' # promotionData /\ AttemptsIllegal)]_vars

(* The choice of a promotion piece is open in a live match after a move *)
C30_Witness ==
  /\ isGameActive(store)
  /\ promotionData # NoPromotion
  /\ promotionData.fresh
  /\ Len(games[inst].hist) > 0

----------------------------------------------------------------------------
(* C32: both remaining times are never negative, and a step taken in a     *)
(* terminal match that leaves it terminal (a tick or any other time update *)
(* that arrives after the end) changes neither remaining time nor the      *)
(* result.                                                                 *)
C32_TerminalClock ==
  /\ [](store.whiteTime >= 0 /\ store.blackTime >= 0)
  /\ [][(Terminal /\ Terminal' /\ inst' = inst) =>
          /\ store'.whiteTime = store.whiteTime
          /\ store'.blackTime = store.blackTime
          /\ (store'.whiteTime # store.whiteTime \/
              store'.blackTime # store.blackTime \/ Tick) =>
               store'.gameResult = store.gameResult]_vars

----------------------------------------------------------------------------
(* The thinking time of requestAiMove in the component that plays through  *)
(* the engine worker (src/src/workers/stockfish.worker.ts:207-246), in     *)
(* units of 100 ms; rf10 is randomFactor in tenths, 8 at the least.        *)

RECURSIVE Bisect(_, _, _)
Bisect(x, lo, hi) ==
  IF lo = hi THEN lo
  ELSE LET mid == (lo + hi + 1) \div 2
       IN IF mid * mid <= x THEN Bisect(x, mid, hi) ELSE Bisect(x, lo, mid - 1)

(* The integer part of the square root *)
ISqrt(x) == Bisect(x, 0, 46340)

AI_THINK_MULTIPLIER(strength) ==
  IF strength <= 3 THEN 15 ELSE IF strength <= 5 THEN 8 ELSE 4

requestAiMoveThinkTime(strength, rf10) ==
  LET menuLevel == Max(1, IF strength < 10 THEN strength ELSE 10)
      n == 12 - menuLevel
      k == 3 * AI_THINK_MULTIPLIER(strength) * rf10
  IN Max(30, ISqrt(k * k * n * n * n))

EngineFloor(strength) == requestAiMoveThinkTime(strength, 8)

(* C33: the least thinking time does not grow with the strength level: a   *)
(* request issued at a level waits at least the floor of that level, which *)
(* is at least the floor of every higher level and at most the floor of    *)
(* every lower one.                                                        *)
C33_FloorMonotone ==
  [][IssueStep =>
       LET l == Issued.snap.aiStrength
       IN /\ Issued.think >= Floor(l)
          /\ \A b \in Levels :
               /\ l < b => /\ Floor(l) >= Floor(b)
                           /\ EngineFloor(l) >= EngineFloor(b)
               /\ b < l => /\ Floor(b) >= Floor(l)
                           /\ EngineFloor(b) >= EngineFloor(l)]_vars

(* Two requests are pending, the one of the lower level with the longer wait *)
C33_Witness ==
  \E i, j \in 1..Len(timers) :
    /\ timers[i].kind = "aiBody" /\ timers[j].kind = "aiBody"
    /\ timers[i].snap.aiStrength < timers[j].snap.aiStrength
    /\ timers[i].think = Floor(timers[i].snap.aiStrength)
    /\ timers[j].think = Floor(timers[j].snap.aiStrength)
    /\ timers[i].think > timers[j].think

----------------------------------------------------------------------------
(* C34: the result is written once: in a terminal match a step either      *)
(* leaves the result as it is, or it is an undo or a new game, which clear *)
(* it; nothing replaces a recorded result by another one.                  *)
C34_ResultWriteOnce ==
  [][Terminal =>
       \/ store'.gameStarted /\ store'.gameResult = store.gameResult
       \/ intents' # intents /\ store'.gameResult = NullResult]_vars

----------------------------------------------------------------------------
(* The match is live against the computer and the human is to move *)
HumanToMove ==
  /\ isGameActive(store)
  /\ store.mode = "computer"
  /\ turn(games[inst]) = store.playerSide

(* C35: the flags that gate input are never stuck: in a live match against *)
(* the computer with the human to move and no request, callback or timer   *)
(* pending, isThinking and isAiMakingMove are false.                       *)
C35_FlagsNotStuck ==
  (HumanToMove /\ timers = <<>>) =>
    ~store.isThinking /\ ~isAiMakingMove

----------------------------------------------------------------------------
(* A match between two humans is on *)
HumanMatch == store.gameStarted /\ store.mode = "human"

(* C36: while a match between two humans is on, no computer-move request   *)
(* is issued, no computer move is committed and the thinking flag is       *)
(* false.                                                                  *)
C36_HumanModeNoComputer ==
  /\ [](HumanMatch => ~store.isThinking)
  /\ [][(HumanMatch /\ HumanMatch') =>
          ~IssueStep /\ ~AiCommitStep]_vars

----------------------------------------------------------------------------
(* C37: an undo changes only the position and history of the board of the  *)
(* match, the active colour and, when one is set, the result, which it     *)
(* clears; both remaining times and every other field of the store are as  *)
(* before.  With an empty history it changes nothing.                      *)
C37_UndoFrame ==
  [][(intents' # intents /\ handleUndo) =>
       /\ Len(games[inst].hist) > 0
       /\ store'.whiteTime = store.whiteTime
       /\ store'.blackTime = store.blackTime
       /\ store' = [store EXCEPT !.activeColor = turn(undo(games[inst])),
                                 !.gameResult = NullResult]
       /\ inst' = inst
       /\ games' = [games EXCEPT ![inst] = undo(games[inst])]]_vars

(* Both sides have used time and no move is on the board: the moves of     *)
(* both were taken back and the times were not.                            *)
C37_Witness ==
  /\ isGameActive(store)
  /\ inst = 1
  /\ Len(games[inst].hist) = 0
  /\ store.whiteTime < store.timeControl.secs
  /\ store.blackTime < store.timeControl.secs

----------------------------------------------------------------------------
(* C38: endGame changes only the result.  The Forfeit button, which calls  *)
(* nothing else, leaves every other field of the store as it was; the tick *)
(* that ends the match on time changes besides the result only the time it *)
(* counts down; and whenever a live match gets a result, gameStarted is    *)
(* still true.                                                             *)
C38_EndGameFrame ==
  [][/\ (intents' # intents /\ Forfeit) =>
          /\ store'.gameResult # NullResult
          /\ store' = [store EXCEPT !.gameResult = store'.gameResult]
     /\ (Tick /\ store'.gameResult # store.gameResult) =>
          store' = [setTime(store, store.activeColor, 0)
                      EXCEPT !.gameResult = store'.gameResult]
     /\ (isGameActive(store) /\ store'.gameResult # NullResult) =>
          store'.gameStarted]_vars

(* The match was forfeited while the computer was thinking: the flag and   *)
(* the request are as they were.                                           *)
C38_Witness ==
  /\ Terminal
  /\ store.gameResult.reason = "forfeit"
  /\ store.isThinking
  /\ \E i \in 1..Len(timers) :
       timers[i].kind = "aiBody" /\ timers[i].issuedLive
  /\ store.whiteTime > 0 /\ store.blackTime > 0

----------------------------------------------------------------------------
(* The engine adapter: the useStockfish hook of src/unnamed/part_013 and   *)
(* the callback the ChessGame of src/src/workers/stockfish.worker.ts gives *)
(* it.  The engine runs one search at a time: stop ends the running search *)
(* with a bestmove line, go issued during a search starts when that search *)
(* has ended with its line, and a search ends by itself when its limit is  *)
(* reached.  Lines are handled by worker.onmessage in the order posted.    *)
(* `search` and the `of` field of a line record which call the search      *)
(* belongs to; requests, callbacks and leaked are history.                 *)

MaxCalls == 3       \* findBestMove and analyzePosition calls in a run
MaxCallbacks == 4   \* onBestMove calls in a run

(* The line the engine posts when the running search ends *)
BestMoveLine(e) ==
  [of |-> e.search,
   mv |-> IF hasMoves(games[inst]) THEN "move" ELSE "(none)"]

(* postMessage('stop') *)
Stop(e) ==
  IF e.search = "idle" THEN e
  ELSE [e EXCEPT !.outbox = Append(@, BestMoveLine(e)), !.search = "idle"]

(* postMessage('go ...') for a search of the call `tag` *)
Go(e, tag) == [Stop(e) EXCEPT !.search = tag]

AdapterOnly ==
  UNCHANGED <<store, inst, games, isAiThinking, isAiMakingMove, promotionData,
              timers, tickLeft, intents, lastAi>>

(* worker.onmessage, line readyok *)
readyok ==
  /\ ~stockfish.ready
  /\ stockfish' = [stockfish EXCEPT !.ready = TRUE]
  /\ AdapterOnly

(* findBestMove, called by requestAiMove, which has set the thinking flag *)
findBestMove ==
  /\ stockfish.ready
  /\ stockfish.calls < MaxCalls
  /\ isGameActive(store)
  /\ stockfish' = [Go(Stop(stockfish), "find") EXCEPT
                     !.stopFind = @ + 1, !.calls = @ + 1, !.requests = @ + 1]
  /\ store' = setThinking(store, TRUE)
  /\ UNCHANGED <<inst, games, isAiThinking, isAiMakingMove, promotionData,
                 timers, tickLeft, intents, lastAi>>

analyzePosition ==
  /\ stockfish.ready
  /\ stockfish.calls < MaxCalls
  /\ stockfish' = [Go([stockfish EXCEPT !.analyzing = TRUE], "analysis") EXCEPT
                     !.stopAnalysis = @ + 1, !.calls = @ + 1]
  /\ AdapterOnly

(* The safety timeout of findBestMove *)
findStop ==
  /\ stockfish.stopFind > 0
  /\ stockfish' = [Stop(stockfish) EXCEPT !.stopFind = @ - 1]
  /\ AdapterOnly

(* The timeout of analyzePosition *)
analysisStop ==
  /\ stockfish.stopAnalysis > 0
  /\ stockfish' = [Stop(stockfish) EXCEPT !.analyzing = FALSE,
                                          !.stopAnalysis = @ - 1]
  /\ AdapterOnly

(* The running search reaches its limit *)
searchEnds ==
  /\ stockfish.search # "idle"
  /\ stockfish' = Stop(stockfish)
  /\ AdapterOnly

(* worker.onmessage, line bestmove: dropped in the analysis window, else   *)
(* given to the callback of ChessGame, which plays a move when the         *)
(* computer is to move in a live match and clears the thinking flag.       *)
onmessage(st) ==
  /\ stockfish.outbox # <<>>
  /\ LET line == Head(stockfish.outbox)
         rest == [stockfish EXCEPT !.outbox = Tail(@)]
         g == games[inst]
         played == /\ line.mv = "move"
                   /\ store.mode = "computer"
                   /\ isGameActive(store)
                   /\ turn(g) = Other(store.playerSide)
         called == [rest EXCEPT !.callbacks = @ + 1,
                                !.leaked = @ \/ line.of = "analysis"]
     IN IF stockfish.analyzing
        THEN /\ st = "ongoing"
             /\ stockfish' = [rest EXCEPT !.analyzing = FALSE]
             /\ UNCHANGED <<store, games>>
        ELSE /\ stockfish.callbacks < MaxCallbacks
             /\ ~played => st = "ongoing"
             /\ stockfish' = IF line.mv = "(none)"
                             THEN Go(Stop(called), "fallback")
                             ELSE called
             /\ store' = setThinking(store, FALSE)
             /\ games' = IF played
                         THEN [games EXCEPT
                                 ![inst] = move(g, "computer", turn(g), st)]
                         ELSE games
  /\ UNCHANGED <<inst, isAiThinking, isAiMakingMove, promotionData,
                 timers, tickLeft, intents, lastAi>>

(* A live match against the engine, the hook just mounted *)
InitAdapter ==
  /\ \E side \in {"white", "black"}, h \in EngineHistories :
       /\ \A k \in 1..Len(h) :
            h[k].by = (IF h[k].side = side THEN "human" ELSE "computer")
       /\ store = [initialState EXCEPT
                     !.playerSide = side, !.gameStarted = TRUE,
                     !.activeColor = turn([hist |-> h, status |-> "ongoing"])]
       /\ games = [i \in 1..MaxInst |->
                     IF i = 1 THEN [hist |-> h, status |-> "ongoing"]
                     ELSE NewChess]
  /\ inst = 1
  /\ isAiThinking = FALSE
  /\ isAiMakingMove = FALSE
  /\ promotionData = NoPromotion
  /\ timers = <<>>
  /\ tickLeft = TickInterval
  /\ intents = 0
  /\ lastAi = NoAiMove
  /\ stockfish = NoWorker

NextAdapter ==
  \/ readyok
  \/ findBestMove
  \/ analyzePosition
  \/ findStop
  \/ analysisStop
  \/ searchEnds
  \/ \E st \in Outcomes : onmessage(st)

SpecAdapter == InitAdapter /\ [][NextAdapter]_vars

(* Nothing is running, in flight or scheduled in the adapter *)
Quiescent ==
  /\ stockfish.search = "idle"
  /\ stockfish.outbox = <<>>
  /\ stockfish.stopFind = 0
  /\ stockfish.stopAnalysis = 0

(* C31: every findBestMove request gets exactly one onBestMove callback    *)
(* (never more callbacks than requests, and as many once nothing is        *)
(* running, in flight or scheduled), the bestmove line of an analysis      *)
(* search is never given to the callback, and the thinking flag is then    *)
(* cleared.                                                                *)
C31_OneCallbackPerRequest ==
  /\ stockfish.callbacks <= stockfish.requests
  /\ ~stockfish.leaked
  /\ Quiescent =>
       /\ stockfish.callbacks = stockfish.requests
       /\ ~store.isThinking

====
